---------------------------- MODULE Spec2Model ----------------------------
(***************************************************************************)
(* container-explorer: the "list" commands (commands/list.go) over the     *)
(* containerd metadata store, and the string functions they use.           *)
(*                                                                         *)
(* Go strings are modelled as sequences of one-character strings, so that  *)
(* strings.Split, strings.HasPrefix, strings.TrimSpace and fmt's %d do    *)
(* what the library does, character by character.                          *)
(***************************************************************************)
EXTENDS Integers, Sequences, FiniteSets, TLC

VARIABLES
    db,        \* the stores on disk: namespaces, their records, the plugin stores
    cmd,       \* the command (or function) being run
    pc,        \* position in the command
    flags,     \* command-line flags of the run
    nss,       \* namespaces returned by ctrmeta.GetNamespaces
    idx,       \* index in nss of the next namespace of the loop
    infos,     \* records collected so far (listContent, listSnapshots)
    out,       \* rows written to the tabwriter / stdout, in order
    res,       \* how the command ended: "ok", "error", "fatal", "panic"
    open,      \* store handles opened and not yet released
    txs,       \* transactions the command has begun on the metadata store
    seen,      \* the metadata store as it was when the command began
    arg,       \* argument of the function under test
    ret        \* its result

vars == <<db, cmd, pc, flags, nss, idx, infos, out, res, open, txs, seen, arg, ret>>

---------------------------------------------------------------------------
(* Bounds of the model.                                                    *)

\* characters appended to an allow-list entry to build a longer name
MaxExt == 1
\* characters after "HOSTNAME=" in a generated environment entry
MaxRem == 3
\* entries in a process environment list
MaxEnv == 2
\* largest snapshot sequence id
MaxSeqId == 120
\* namespaces in the store
MaxNs == 2
\* records per namespace
MaxRecs == 2

---------------------------------------------------------------------------
(* Strings.                                                                *)

\* all sequences over S of length at most n
RECURSIVE SeqsUpTo(_, _)
SeqsUpTo(S, n) ==
    IF n = 0 THEN {<<>>}
    ELSE LET shorter == SeqsUpTo(S, n - 1)
         IN  shorter \cup {Append(s, c) : s \in shorter, c \in S}

\* strings.Contains(s, c) for a one-character c
Contains(s, c) == \E i \in 1..Len(s) : s[i] = c

\* strings.Index(s, c) + 1 for a one-character c that occurs in s
IndexOf(s, c) == CHOOSE i \in 1..Len(s) : s[i] = c /\ \A j \in 1..(i - 1) : s[j] # c

\* strings.Split(s, c) for a one-character separator c
RECURSIVE Split(_, _)
Split(s, c) ==
    IF ~Contains(s, c) THEN <<s>>
    ELSE LET i == IndexOf(s, c)
         IN  <<SubSeq(s, 1, i - 1)>> \o Split(SubSeq(s, i + 1, Len(s)), c)

\* strings.HasPrefix(s, p)
HasPrefix(s, p) == Len(s) >= Len(p) /\ SubSeq(s, 1, Len(p)) = p

IsSpace(c) == c \in {" ", "\t", "\n", "\r"}

RECURSIVE TrimLeft(_)
TrimLeft(s) ==
    IF s # <<>> /\ IsSpace(Head(s)) THEN TrimLeft(Tail(s)) ELSE s

RECURSIVE TrimRight(_)
TrimRight(s) ==
    IF s # <<>> /\ IsSpace(s[Len(s)]) THEN TrimRight(SubSeq(s, 1, Len(s) - 1)) ELSE s

\* strings.TrimSpace(s)
TrimSpace(s) == TrimRight(TrimLeft(s))

\* the digit character of d in 0..9
Digit(d) == <<"0", "1", "2", "3", "4", "5", "6", "7", "8", "9">>[d + 1]

\* fmt's %d of an unsigned integer: digits produced least significant first
RECURSIVE FormatUint(_)
FormatUint(n) ==
    IF n < 10 THEN <<Digit(n)>>
    ELSE Append(FormatUint(n \div 10), Digit(n % 10))

---------------------------------------------------------------------------
(* The allow-list of known (GKE support) container images.                 *)

\* "asia.gcr.io/gke-release-staging/cluster-proportional-autoscaler-amd64"
Img01 ==
    <<"a","s","i","a",".","g","c","r",".","i","o","/","g","k","e","-","r","e","l","e","a","s","e","-","s","t","a","g","i","n","g","/","c","l","u","s","t","e","r","-","p","r","o","p","o","r","t","i","o","n","a","l","-","a","u","t","o","s","c","a","l","e","r","-","a","m","d","6","4">>

\* "gcr.io/k8s-ingress-image-push/ingress-gce-404-server-with-metrics"
Img02 ==
    <<"g","c","r",".","i","o","/","k","8","s","-","i","n","g","r","e","s","s","-","i","m","a","g","e","-","p","u","s","h","/","i","n","g","r","e","s","s","-","g","c","e","-","4","0","4","-","s","e","r","v","e","r","-","w","i","t","h","-","m","e","t","r","i","c","s">>

\* "gke.gcr.io/cluster-proportional-autoscaler"
Img03 ==
    <<"g","k","e",".","g","c","r",".","i","o","/","c","l","u","s","t","e","r","-","p","r","o","p","o","r","t","i","o","n","a","l","-","a","u","t","o","s","c","a","l","e","r">>

\* "gke.gcr.io/csi-node-driver-registrar"
Img04 ==
    <<"g","k","e",".","g","c","r",".","i","o","/","c","s","i","-","n","o","d","e","-","d","r","i","v","e","r","-","r","e","g","i","s","t","r","a","r">>

\* "gke.gcr.io/event-exporter"
Img05 ==
    <<"g","k","e",".","g","c","r",".","i","o","/","e","v","e","n","t","-","e","x","p","o","r","t","e","r">>

\* "gke.gcr.io/fluent-bit"
Img06 ==
    <<"g","k","e",".","g","c","r",".","i","o","/","f","l","u","e","n","t","-","b","i","t">>

\* "gke.gcr.io/fluent-bit-gke-exporter"
Img07 ==
    <<"g","k","e",".","g","c","r",".","i","o","/","f","l","u","e","n","t","-","b","i","t","-","g","k","e","-","e","x","p","o","r","t","e","r">>

\* "gke.gcr.io/gcp-compute-persistent-disk-csi-driver"
Img08 ==
    <<"g","k","e",".","g","c","r",".","i","o","/","g","c","p","-","c","o","m","p","u","t","e","-","p","e","r","s","i","s","t","e","n","t","-","d","i","s","k","-","c","s","i","-","d","r","i","v","e","r">>

\* "gke.gcr.io/gke-metrics-agent"
Img09 ==
    <<"g","k","e",".","g","c","r",".","i","o","/","g","k","e","-","m","e","t","r","i","c","s","-","a","g","e","n","t">>

\* "gke.gcr.io/k8s-dns-dnsmasq-nanny"
Img10 ==
    <<"g","k","e",".","g","c","r",".","i","o","/","k","8","s","-","d","n","s","-","d","n","s","m","a","s","q","-","n","a","n","n","y">>

\* "gke.gcr.io/k8s-dns-kube-dns"
Img11 ==
    <<"g","k","e",".","g","c","r",".","i","o","/","k","8","s","-","d","n","s","-","k","u","b","e","-","d","n","s">>

\* "gke.gcr.io/k8s-dns-sidecar"
Img12 ==
    <<"g","k","e",".","g","c","r",".","i","o","/","k","8","s","-","d","n","s","-","s","i","d","e","c","a","r">>

\* "gke.gcr.io/kube-proxy-amd64"
Img13 ==
    <<"g","k","e",".","g","c","r",".","i","o","/","k","u","b","e","-","p","r","o","x","y","-","a","m","d","6","4">>

\* "gke.gcr.io/prometheus-to-sd"
Img14 ==
    <<"g","k","e",".","g","c","r",".","i","o","/","p","r","o","m","e","t","h","e","u","s","-","t","o","-","s","d">>

\* "gke.gcr.io/proxy-agent"
Img15 ==
    <<"g","k","e",".","g","c","r",".","i","o","/","p","r","o","x","y","-","a","g","e","n","t">>

\* "k8s.gcr.io/metrics-server/metrics-server"
Img16 ==
    <<"k","8","s",".","g","c","r",".","i","o","/","m","e","t","r","i","c","s","-","s","e","r","v","e","r","/","m","e","t","r","i","c","s","-","s","e","r","v","e","r">>

\* "k8s.gcr.io/pause"
Img17 ==
    <<"k","8","s",".","g","c","r",".","i","o","/","p","a","u","s","e">>

\* the keys of the knownContainerImage map after init()
loadGKEContainerImages ==
    {Img01, Img02, Img03, Img04, Img05, Img06, Img07, Img08, Img09,
     Img10, Img11, Img12, Img13, Img14, Img15, Img16, Img17}

\* knownContainerImage[k]: "gke" for a key, the empty string otherwise
knownContainerImage(k) == IF k \in loadGKEContainerImages THEN "gke" ELSE ""

\* isKnownContainerImage without its ':' branch
isKnownContainerImage_DigestOnly(image) ==
    Contains(image, "@") /\ knownContainerImage(Split(image, "@")[1]) # ""

isKnownContainerImage(image) ==
    IF Contains(image, "@") /\ knownContainerImage(Split(image, "@")[1]) # ""
    THEN TRUE
    ELSE IF Contains(image, ":") /\ knownContainerImage(Split(image, ":")[1]) # ""
    THEN TRUE
    ELSE FALSE

---------------------------------------------------------------------------
(* Image references given to isKnownContainerImage.                        *)

\* "myapp/web"
NameWeb == <<"m","y","a","p","p","/","w","e","b">>
\* "localhost:5000/web"
NamePort == <<"l","o","c","a","l","h","o","s","t",":","5","0","0","0","/","w","e","b">>
\* "gke.gcr.io:443/fluent-bit"
NameKnownPort == <<"g","k","e",".","g","c","r",".","i","o",":","4","4","3","/","f","l","u","e","n","t","-","b","i","t">>
\* "v1", "v2"
TagV1 == <<"v","1">>
TagV2 == <<"v","2">>
\* "sha256:abc", "abc"
DigestSha == <<"s","h","a","2","5","6",":","a","b","c">>
DigestBare == <<"a","b","c">>

Prefixes(s) == {SubSeq(s, 1, n) : n \in 0..Len(s)}

ExtChars == {"-", "x", "/"}

Extensions(s) == {s \o e : e \in SeqsUpTo(ExtChars, MaxExt)}

\* every prefix of an allow-list entry, every entry extended by up to MaxExt
\* characters, and names unrelated to the list
ImageNames ==
    UNION {Prefixes(k) \cup Extensions(k) : k \in loadGKEContainerImages}
    \cup {NameWeb, NamePort, NameKnownPort}

ImageArgs ==
    [name : ImageNames, form : {"bare"}, tag : {TagV1}, digest : {DigestSha}]
    \cup [name : ImageNames, form : {"tag"}, tag : {TagV1, TagV2}, digest : {DigestSha}]
    \cup [name : ImageNames, form : {"digest"}, tag : {TagV1},
          digest : {DigestSha, DigestBare}]
    \cup [name : ImageNames, form : {"tagdigest"}, tag : {TagV1, TagV2},
          digest : {DigestSha, DigestBare}]

\* the text of an image reference
ImageRef(a) ==
    a.name
    \o (IF a.form \in {"tag", "tagdigest"} THEN <<":">> \o a.tag ELSE <<>>)
    \o (IF a.form \in {"digest", "tagdigest"} THEN <<"@">> \o a.digest ELSE <<>>)

---------------------------------------------------------------------------
(* The hostname of a container, from its stored process specification      *)
(* (listContainers).                                                       *)

\* "HOSTNAME="
HostnamePrefix == <<"H","O","S","T","N","A","M","E","=">>
\* "PATH=/bin"
EnvPath == <<"P","A","T","H","=","/","b","i","n">>
\* "HOSTNAME" (no '=')
EnvNoEquals == <<"H","O","S","T","N","A","M","E">>
\* "h1"
HostH1 == <<"h","1">>
\* "foo"
HostFoo == <<"f","o","o">>

\* result.Spec is nil, or result.Spec.Value is nil
NoSpec == [present |-> FALSE, valid |-> FALSE, hostname |-> <<>>,
           hasProcess |-> FALSE, env |-> <<>>]

\* spec.Spec's zero value: no hostname, Process a nil pointer
ZeroSpec == [Hostname |-> <<>>, Process |-> [nil |-> TRUE, Env |-> <<>>]]

\* json.Unmarshal(result.Spec.Value, &v), its error dropped: bytes that are
\* not a JSON document leave v at its zero value; a document fills the
\* fields it carries
jsonUnmarshal(payload) ==
    IF ~payload.valid THEN ZeroSpec
    ELSE [Hostname |-> payload.hostname,
          Process  |-> IF payload.hasProcess
                       THEN [nil |-> FALSE, Env |-> payload.env]
                       ELSE [nil |-> TRUE, Env |-> <<>>]]

\* the loop over v.Process.Env: the first entry with the prefix decides
RECURSIVE envHostname(_)
envHostname(env) ==
    IF env = <<>> THEN <<>>
    ELSE IF HasPrefix(Head(env), HostnamePrefix)
    THEN TrimSpace(Split(Head(env), "=")[2])
    ELSE envHostname(Tail(env))

\* the hostname block of listContainers; panic: v.Process is nil and is
\* dereferenced
containerHostname(payload) ==
    IF ~payload.present THEN [panic |-> FALSE, host |-> <<>>]
    ELSE LET v == jsonUnmarshal(payload)
         IN  IF v.Hostname # <<>> THEN [panic |-> FALSE, host |-> v.Hostname]
             ELSE IF v.Process.nil THEN [panic |-> TRUE, host |-> <<>>]
             ELSE [panic |-> FALSE, host |-> envHostname(v.Process.Env)]

---------------------------------------------------------------------------
(* The overlay path of a snapshot (listSnapshots).                         *)

\* "/var/lib/plugins"
InstallRoot == <<"/","v","a","r","/","l","i","b","/","p","l","u","g","i","n","s">>
\* "overlayfs", "native"
PluginOverlayfs == <<"o","v","e","r","l","a","y","f","s">>
PluginNative == <<"n","a","t","i","v","e">>

Plugins == {PluginOverlayfs, PluginNative}

\* the root directory of a snapshot plugin: the installation root and the
\* plugin's name
ResolveRoot(plugin) == InstallRoot \o <<"/">> \o plugin

\* fmt.Sprintf with the path after "/snapshots" misspelt
OverlayPath_Singular(ssroot, id) ==
    ssroot \o <<"/","s","n","a","p","s","h","o","t","/">> \o FormatUint(id) \o <<"/","f","s">>

\* fmt.Sprintf("%s/snapshots/%d/fs", ssroot, id)
OverlayPath(ssroot, id) ==
    ssroot \o <<"/","s","n","a","p","s","h","o","t","s","/">> \o FormatUint(id) \o <<"/","f","s">>

---------------------------------------------------------------------------
(* The stores: the metadata store (namespaces and their records) and one   *)
(* store per snapshot plugin.                                              *)

AllNs == <<"n1", "n2", "n3", "n4">>
RecIds == <<"r1", "r2", "r3", "r4">>

\* "myapp/web:v2", "gke.gcr.io/fluent-bit:v1"
ImageWebV2 == NameWeb \o <<":">> \o TagV2
ImageFluentBitV1 == Img06 \o <<":">> \o TagV1

\* stored specifications: one with a hostname, the empty document "{}", and
\* bytes that are not a JSON document
SpecWithHostname == [present |-> TRUE, valid |-> TRUE, hostname |-> HostH1,
                     hasProcess |-> TRUE, env |-> <<EnvPath>>]
SpecEmptyDocument == [present |-> TRUE, valid |-> TRUE, hostname |-> <<>>,
                      hasProcess |-> FALSE, env |-> <<>>]
SpecUndecodable == [present |-> TRUE, valid |-> FALSE, hostname |-> <<>>,
                    hasProcess |-> FALSE, env |-> <<>>]

ContainerVariants ==
    {[image |-> ImageWebV2, spec |-> NoSpec],
     [image |-> ImageWebV2, spec |-> SpecUndecodable],
     [image |-> ImageWebV2, spec |-> SpecEmptyDocument],
     [image |-> ImageFluentBitV1, spec |-> SpecWithHostname]}

\* a content blob: its info bucket can be read, or not
BlobVariants == {[readable |-> TRUE], [readable |-> FALSE]}

ImageVariants == {[name |-> ImageWebV2], [name |-> ImageFluentBitV1]}

LeaseVariants == {[labels |-> 0], [labels |-> 1]}

\* index entries of the metadata store: the snapshot's name in its plugin's
\* store and the plugin; key "" is the entry of a namespace without snapshots
SnapshotVariants ==
    {[key |-> "k", name |-> "s1", snapshotter |-> PluginOverlayfs],
     [key |-> "k", name |-> "s2", snapshotter |-> PluginNative],
     [key |-> "k", name |-> "s9", snapshotter |-> PluginOverlayfs],
     [key |-> "",  name |-> "",   snapshotter |-> <<>>]}

\* the records of a bucket: its keys are distinct, RecIds in order
WithIds(vs) == [i \in 1..Len(vs) |-> [id |-> RecIds[i], v |-> vs[i]]]

Listings(V) == {WithIds(vs) : vs \in SeqsUpTo(V, MaxRecs)}

NoRecords ==
    [containers |-> [err |-> FALSE, recs |-> <<>>],
     content    |-> [absent |-> TRUE, recs |-> <<>>],
     images     |-> [err |-> FALSE, recs |-> <<>>],
     leases     |-> [err |-> FALSE, recs |-> <<>>],
     snapshots  |-> [err |-> FALSE, recs |-> <<>>]]

\* the records of one namespace, of one kind; err: listing them fails
NsDataOf(kind) ==
    CASE kind = "containers" ->
            {[NoRecords EXCEPT !.containers = [err |-> e, recs |-> l]] :
                e \in {FALSE}, l \in Listings(ContainerVariants)}
            \cup {[NoRecords EXCEPT !.containers = [err |-> TRUE, recs |-> <<>>]]}
      [] kind = "content" ->
            {[NoRecords EXCEPT !.content = [absent |-> FALSE, recs |-> l]] :
                l \in Listings(BlobVariants)}
            \cup {NoRecords}
      [] kind = "images" ->
            {[NoRecords EXCEPT !.images = [err |-> FALSE, recs |-> l]] :
                l \in Listings(ImageVariants)}
            \cup {[NoRecords EXCEPT !.images = [err |-> TRUE, recs |-> <<>>]]}
      [] kind = "leases" ->
            {[NoRecords EXCEPT !.leases = [err |-> FALSE, recs |-> l]] :
                l \in Listings(LeaseVariants)}
            \cup {[NoRecords EXCEPT !.leases = [err |-> TRUE, recs |-> <<>>]]}
      [] kind = "snapshots" ->
            {[NoRecords EXCEPT !.snapshots = [err |-> FALSE, recs |-> l]] :
                l \in Listings(SnapshotVariants)}
            \cup {[NoRecords EXCEPT !.snapshots = [err |-> TRUE, recs |-> <<>>]]}

\* a plugin's store: "ok", without its version bucket, without its snapshots
\* bucket, or a file that cannot be opened; ids: snapshot name -> sequence id
\* (0: no such snapshot)
PluginShapes == {"ok", "noversion", "nosnapshots", "missing"}

SnapshotNames == {"s1", "s2", "s9"}

OverlayfsIds == [n \in SnapshotNames |-> CASE n = "s1" -> 42 [] n = "s2" -> 7 [] OTHER -> 0]
NativeIds == [n \in SnapshotNames |-> CASE n = "s2" -> 3 [] OTHER -> 0]

PluginStores(shapes) ==
    {[p \in Plugins |-> [shape |-> IF p = PluginOverlayfs THEN a ELSE b,
                         ids   |-> IF p = PluginOverlayfs THEN OverlayfsIds
                                   ELSE NativeIds]] :
        a \in shapes, b \in shapes}

Kinds == {"containers", "content", "images", "leases", "snapshots"}

NsSet(n) == {AllNs[i] : i \in 1..n}

\* stores holding records of one kind, in up to MaxNs namespaces
StoresOf(kind) ==
    UNION {[names  : {SubSeq(AllNs, 1, n)},
            ns     : [NsSet(n) -> NsDataOf(kind)],
            pstore : PluginStores(IF kind = "snapshots" THEN PluginShapes
                                  ELSE {"ok"})] : n \in 0..MaxNs}

Stores == UNION {StoresOf(k) : k \in Kinds}

EmptyDb == CHOOSE s \in StoresOf("leases") : s.names = <<>>

\* a namespace holding k records of every kind
FullNsData(k, c, b, s) ==
    [containers |-> [err |-> FALSE, recs |-> WithIds([i \in 1..k |-> c])],
     content    |-> [absent |-> FALSE, recs |-> WithIds([i \in 1..k |-> b])],
     images     |-> [err |-> FALSE,
                     recs |-> WithIds([i \in 1..k |-> [name |-> ImageWebV2]])],
     leases     |-> [err |-> FALSE,
                     recs |-> WithIds([i \in 1..k |-> [labels |-> 0]])],
     snapshots  |-> [err |-> FALSE, recs |-> WithIds([i \in 1..k |-> s])]]

\* stores holding records of every kind, the same in each namespace
FullStores ==
    UNION {[names  : {SubSeq(AllNs, 1, n)},
            ns     : {[x \in NsSet(n) |-> FullNsData(k, c, b, s)] :
                         k \in 0..MaxRecs, c \in ContainerVariants,
                         b \in BlobVariants, s \in SnapshotVariants},
            pstore : PluginStores(PluginShapes)] : n \in 0..MaxNs}

---------------------------------------------------------------------------
(* isKnownContainerImage applied to image references.                      *)

NoArg == [none |-> TRUE]

\* no transaction begun. view: read-only transactions on the metadata store;
\* plugin: read-only transactions on a plugin's store; update: write
\* transactions on either
NoTx == [view |-> 0, update |-> 0, plugin |-> 0]

\* a write transaction where the code begins a read-only one
BeginView_Update(t) == [t EXCEPT !.update = @ + 1]

\* db.View: one more read-only transaction on the metadata store
BeginView(t) == [t EXCEPT !.view = @ + 1]

\* the variables of the list commands, at rest
CommandIdle ==
    /\ flags = [skipKnown |-> FALSE]
    /\ nss = <<>>
    /\ idx = 1
    /\ infos = <<>>
    /\ out = <<>>
    /\ res = "none"
    /\ open = {}
    /\ txs = NoTx
    /\ seen = db

CommandUnchanged ==
    UNCHANGED <<db, flags, nss, idx, infos, out, res, open, txs, seen>>

InitImage ==
    /\ db = EmptyDb
    /\ cmd = "isKnownContainerImage"
    /\ pc = "call"
    /\ arg \in ImageArgs
    /\ ret = FALSE
    /\ CommandIdle

CallIsKnownContainerImage ==
    /\ cmd = "isKnownContainerImage"
    /\ pc = "call"
    /\ ret' = isKnownContainerImage(ImageRef(arg))
    /\ pc' = "ret"
    /\ UNCHANGED <<cmd, arg>>
    /\ CommandUnchanged

NextImage == CallIsKnownContainerImage

SpecImage == InitImage /\ [][NextImage]_vars

\* "gke.gcr.io/fluent-bit"
NameFluentBit == Img06

\* C3: for a reference name:tag, name@digest or name:tag@digest,
\* isKnownContainerImage returns true exactly when name is an allow-list
\* entry; "gke.gcr.io/fluent-bit:v1" and "gke.gcr.io/fluent-bit@sha256:abc"
\* are support images and "myapp/web:v2" is not.
C3_KnownIffExactName ==
    (cmd = "isKnownContainerImage" /\ pc = "ret" /\ arg.form # "bare")
        => /\ ret = (arg.name \in loadGKEContainerImages)
           /\ (arg.name = NameFluentBit /\ arg.form \in {"tag", "digest"}) => ret = TRUE
           /\ arg.name = NameWeb => ret = FALSE

\* "gke.gcr.io/fluent-bit:v1" was classified as a support image
C3_Witness ==
    /\ cmd = "isKnownContainerImage" /\ pc = "ret"
    /\ arg.form = "tag" /\ arg.tag = TagV1
    /\ arg.name = NameFluentBit
    /\ ret = TRUE

\* C4: a reference without ':tag' and without '@digest' that is exactly an
\* allow-list entry (such as "k8s.gcr.io/pause") is a support image.
C4_BareEntryIsKnown ==
    (cmd = "isKnownContainerImage" /\ pc = "ret" /\ arg.form = "bare"
        /\ arg.name \in loadGKEContainerImages)
        => ret = TRUE

---------------------------------------------------------------------------
(* The hostname block applied to stored specifications.                    *)

RemChars == {"a", "=", " "}

EnvEntries ==
    {HostnamePrefix \o r : r \in SeqsUpTo(RemChars, MaxRem)}
    \cup {EnvPath, EnvNoEquals, HostnamePrefix \o HostFoo}

EnvLists == SeqsUpTo(EnvEntries, MaxEnv)

SpecPayloads ==
    {NoSpec}
    \cup [present : {TRUE}, valid : BOOLEAN, hostname : {<<>>, HostH1},
          hasProcess : {TRUE}, env : EnvLists]
    \cup [present : {TRUE}, valid : BOOLEAN, hostname : {<<>>, HostH1},
          hasProcess : {FALSE}, env : {<<>>}]

InitHostname ==
    /\ db = EmptyDb
    /\ cmd = "containerHostname"
    /\ pc = "call"
    /\ arg \in SpecPayloads
    /\ ret = [panic |-> FALSE, host |-> <<>>]
    /\ CommandIdle

CallContainerHostname ==
    /\ cmd = "containerHostname"
    /\ pc = "call"
    /\ ret' = containerHostname(arg)
    /\ pc' = "ret"
    /\ UNCHANGED <<cmd, arg>>
    /\ CommandUnchanged

NextHostname == CallContainerHostname

SpecHostname == InitHostname /\ [][NextHostname]_vars

\* the whole remainder after "HOSTNAME=" of the first entry with that
\* prefix, trimmed; empty when no entry has it
RECURSIVE RemainderOfFirst(_)
RemainderOfFirst(env) ==
    IF env = <<>> THEN <<>>
    ELSE IF HasPrefix(Head(env), HostnamePrefix)
    THEN TrimSpace(SubSeq(Head(env), Len(HostnamePrefix) + 1, Len(Head(env))))
    ELSE RemainderOfFirst(Tail(env))

\* C2: the hostname is the explicit hostname when non-empty; otherwise the
\* whole trimmed remainder after "HOSTNAME=" of the first environment entry
\* with that prefix, also when the remainder contains '='; otherwise empty.
\* For environment ["HOSTNAME=foo"] and no explicit hostname it is "foo".
C2_HostnameResolution ==
    (cmd = "containerHostname" /\ pc = "ret"
        /\ arg.present /\ arg.valid /\ arg.hasProcess)
        => /\ ~ret.panic
           /\ ret.host = (IF arg.hostname # <<>> THEN arg.hostname
                          ELSE RemainderOfFirst(arg.env))

---------------------------------------------------------------------------
(* The overlay path built for plugin roots and sequence ids.               *)

\* "/", "/mnt/x"
RootSlash == <<"/">>
RootMnt == <<"/","m","n","t","/","x">>

PathRoots == {ResolveRoot(p) : p \in Plugins} \cup {<<>>, RootSlash, RootMnt}

InitPath ==
    /\ db = EmptyDb
    /\ cmd = "OverlayPath"
    /\ pc = "call"
    /\ arg \in [root : PathRoots, id : 0..MaxSeqId]
    /\ ret = <<>>
    /\ CommandIdle

CallOverlayPath ==
    /\ cmd = "OverlayPath"
    /\ pc = "call"
    /\ ret' = OverlayPath(arg.root, arg.id)
    /\ pc' = "ret"
    /\ UNCHANGED <<cmd, arg>>
    /\ CommandUnchanged

NextPath == CallOverlayPath

SpecPath == InitPath /\ [][NextPath]_vars

DigitValue(c) == CHOOSE d \in 0..9 : Digit(d) = c

\* the number a string of decimal digits denotes, most significant first
RECURSIVE ParseUint(_)
ParseUint(s) ==
    IF s = <<>> THEN 0
    ELSE 10 * ParseUint(SubSeq(s, 1, Len(s) - 1)) + DigitValue(s[Len(s)])

\* s is the decimal numeral of n: digits only, no leading zero, value n
IsDecimalOf(s, n) ==
    /\ s # <<>>
    /\ \A i \in 1..Len(s) : \E d \in 0..9 : s[i] = Digit(d)
    /\ (Len(s) > 1 => s[1] # "0")
    /\ ParseUint(s) = n

\* "/var/lib/plugins/overlayfs/snapshots/42/fs"
PathExample == <<"/","v","a","r","/","l","i","b","/","p","l","u","g","i","n","s","/","o","v","e","r","l","a","y","f","s","/","s","n","a","p","s","h","o","t","s","/","4","2","/","f","s">>

---------------------------------------------------------------------------
(* The list commands.                                                      *)

\* ctrmeta.GetNamespaces: the names in the namespace bucket, in key order;
\* nil (the empty sequence) when the bucket is absent
GetNamespaces(store) == store.names

\* how opening the store and enumerating the namespaces can end
EnvOutcomes == {"ok", "envfail", "nsfail"}

Header(c) ==
    [cmd |-> c, header |-> TRUE, ns |-> "", id |-> "", host |-> <<>>,
     image |-> <<>>, snapshotter |-> <<>>, fspath |-> <<>>]

Row(c, ns, id) ==
    [cmd |-> c, header |-> FALSE, ns |-> ns, id |-> id, host |-> <<>>,
     image |-> <<>>, snapshotter |-> <<>>, fspath |-> <<>>]

\* how a command ends (res): "ok"; "panic"; log.Fatal on a failed open
\* ("fatal-env") or a failed namespace enumeration ("fatal-nss"), where the
\* process exits and deferred calls do not run; or a returned error: of the
\* open ("err-env"), of the enumeration ("err-nss"), for an absent namespace
\* bucket ("err-empty"), of a listing ("err-list"), of a content View
\* ("err-view"), of the plugin store's open ("err-ssenv") or for a plugin
\* store without its buckets ("err-bucket")
EnvFailures == {"fatal-env", "fatal-nss", "err-env", "err-nss"}

\* the command ends before its loop
EndEarly(c, r, handles) ==
    /\ cmd' = c
    /\ pc' = "done"
    /\ res' = r
    /\ open' = handles
    /\ nss' = <<>>
    /\ idx' = 1
    /\ infos' = <<>>
    /\ out' = <<>>
    /\ txs' = IF r \in {"fatal-env", "err-env"} THEN NoTx
              ELSE BeginView(NoTx)
    /\ seen' = db

\* the command goes on to its loop over the namespaces
Enter(c, names, written) ==
    /\ cmd' = c
    /\ pc' = "loop"
    /\ res' = "none"
    /\ open' = {"meta"}
    /\ nss' = names
    /\ idx' = 1
    /\ infos' = <<>>
    /\ out' = written
    /\ txs' = BeginView(NoTx)
    /\ seen' = db

\* the command returns r; the deferred cancel calls release every handle
Return(r) ==
    /\ pc' = "done"
    /\ res' = r
    /\ open' = {}

NoFlags == [skipKnown |-> FALSE]

Init ==
    /\ db \in Stores
    /\ cmd = "none"
    /\ pc = "idle"
    /\ arg = NoArg
    /\ ret = FALSE
    /\ CommandIdle

\* list namespaces
ListNamespaces ==
    /\ pc = "idle"
    /\ flags' = NoFlags
    /\ \E o \in EnvOutcomes :
        CASE o = "envfail" -> EndEarly("namespaces", "fatal-env", {})
          [] o = "nsfail"  -> EndEarly("namespaces", "fatal-nss", {"meta"})
          [] o = "ok" ->
                LET names == GetNamespaces(db)
                IN  /\ cmd' = "namespaces"
                    /\ nss' = names
                    /\ idx' = Len(names) + 1
                    /\ infos' = <<>>
                    /\ txs' = BeginView(NoTx)
                    /\ seen' = db
                    /\ out' = IF names = <<>> THEN <<>>
                              ELSE <<Header("namespaces")>>
                                   \o [i \in 1..Len(names) |->
                                          Row("namespaces", names[i], "")]
                    /\ Return("ok")
    /\ UNCHANGED <<db, arg, ret>>

\* list containers: up to the loop
ContainersStart ==
    /\ pc = "idle"
    /\ \E skip \in BOOLEAN : flags' = [skipKnown |-> skip]
    /\ \E o \in EnvOutcomes :
        CASE o = "envfail" -> EndEarly("containers", "fatal-env", {})
          [] o = "nsfail"  -> EndEarly("containers", "fatal-nss", {"meta"})
          [] o = "ok" ->
                Enter("containers", GetNamespaces(db), <<Header("containers")>>)
    /\ UNCHANGED <<db, arg, ret>>

\* the rows of the containers of one namespace, up to a panic in the
\* hostname block
RECURSIVE containerRows(_, _, _)
containerRows(ns, results, skip) ==
    IF results = <<>> THEN [rows |-> <<>>, panic |-> FALSE]
    ELSE LET r    == Head(results)
             rest == containerRows(ns, Tail(results), skip)
             h    == containerHostname(r.v.spec)
         IN  IF skip /\ isKnownContainerImage(r.v.image) THEN rest
             ELSE IF h.panic THEN [rows |-> <<>>, panic |-> TRUE]
             ELSE [rows  |-> <<[Row("containers", ns, r.id)
                                  EXCEPT !.host = h.host, !.image = r.v.image]>>
                             \o rest.rows,
                   panic |-> rest.panic]

\* list containers: one namespace
ContainersNs ==
    /\ cmd = "containers" /\ pc = "loop" /\ idx <= Len(nss)
    /\ LET ns      == nss[idx]
           listing == db.ns[ns].containers
           r       == containerRows(ns, listing.recs, flags.skipKnown)
       IN  IF listing.err
           THEN /\ idx' = idx + 1
                /\ UNCHANGED <<out, pc, res, open>>
           ELSE IF listing.recs = <<>>
           THEN /\ out' = Append(out, Row("containers", ns, ""))
                /\ idx' = idx + 1
                /\ UNCHANGED <<pc, res, open>>
           ELSE /\ out' = out \o r.rows
                /\ IF r.panic
                   THEN Return("panic") /\ UNCHANGED idx
                   ELSE idx' = idx + 1 /\ UNCHANGED <<pc, res, open>>
    /\ txs' = BeginView(txs)
    /\ UNCHANGED <<db, cmd, flags, nss, infos, seen, arg, ret>>

\* list containers: after the loop
ContainersReturn ==
    /\ cmd = "containers" /\ pc = "loop" /\ idx > Len(nss)
    /\ Return("ok")
    /\ UNCHANGED <<db, cmd, flags, nss, idx, infos, out, txs, seen, arg, ret>>

\* list content: up to the loop
ContentStart ==
    /\ pc = "idle"
    /\ flags' = NoFlags
    /\ \E o \in EnvOutcomes :
        CASE o = "envfail" -> EndEarly("content", "err-env", {})
          [] o = "nsfail"  -> EndEarly("content", "err-nss", {})
          [] o = "ok" ->
                IF GetNamespaces(db) = <<>>
                THEN EndEarly("content", "err-empty", {})
                ELSE Enter("content", GetNamespaces(db), <<Header("content")>>)
    /\ UNCHANGED <<db, arg, ret>>

\* the infos of the blobs before the first unreadable one
RECURSIVE readableInfos(_, _)
readableInfos(ns, blobs) ==
    IF blobs = <<>> \/ ~Head(blobs).v.readable THEN <<>>
    ELSE <<[ns |-> ns, digest |-> Head(blobs).id]>>
         \o readableInfos(ns, Tail(blobs))

\* list content: one namespace, in its own View
ContentNs ==
    /\ cmd = "content" /\ pc = "loop" /\ idx <= Len(nss)
    /\ LET ns     == nss[idx]
           bucket == db.ns[ns].content
           read   == readableInfos(ns, bucket.recs)
       IN  IF bucket.absent
           THEN /\ infos' = Append(infos, [ns |-> ns, digest |-> ""])
                /\ idx' = idx + 1
                /\ UNCHANGED <<pc, res, open>>
           ELSE /\ infos' = infos \o read
                /\ IF Len(read) < Len(bucket.recs)
                   THEN Return("err-view") /\ UNCHANGED idx
                   ELSE idx' = idx + 1 /\ UNCHANGED <<pc, res, open>>
    /\ txs' = BeginView(txs)
    /\ UNCHANGED <<db, cmd, flags, nss, out, seen, arg, ret>>

\* list content: the display of the collected infos
ContentDisplay ==
    /\ cmd = "content" /\ pc = "loop" /\ idx > Len(nss)
    /\ out' = out \o [i \in 1..Len(infos) |->
                         Row("content", infos[i].ns, infos[i].digest)]
    /\ Return("ok")
    /\ UNCHANGED <<db, cmd, flags, nss, idx, infos, txs, seen, arg, ret>>

\* list images: up to the loop
ImagesStart ==
    /\ pc = "idle"
    /\ flags' = NoFlags
    /\ \E o \in EnvOutcomes :
        CASE o = "envfail" -> EndEarly("images", "fatal-env", {})
          [] o = "nsfail"  -> EndEarly("images", "err-nss", {})
          [] o = "ok" ->
                IF GetNamespaces(db) = <<>>
                THEN EndEarly("images", "err-empty", {})
                ELSE Enter("images", GetNamespaces(db), <<Header("images")>>)
    /\ UNCHANGED <<db, arg, ret>>

\* list images: one namespace
ImagesNs ==
    /\ cmd = "images" /\ pc = "loop" /\ idx <= Len(nss)
    /\ LET ns      == nss[idx]
           listing == db.ns[ns].images
       IN  IF listing.err
           THEN Return("err-list") /\ UNCHANGED <<idx, out>>
           ELSE /\ out' = IF listing.recs = <<>>
                          THEN Append(out, Row("images", ns, ""))
                          ELSE out \o [i \in 1..Len(listing.recs) |->
                                   [Row("images", ns, listing.recs[i].id)
                                       EXCEPT !.image = listing.recs[i].v.name]]
                /\ idx' = idx + 1
                /\ UNCHANGED <<pc, res, open>>
    /\ txs' = BeginView(txs)
    /\ UNCHANGED <<db, cmd, flags, nss, infos, seen, arg, ret>>

\* list images: after the loop
ImagesReturn ==
    /\ cmd = "images" /\ pc = "loop" /\ idx > Len(nss)
    /\ Return("ok")
    /\ UNCHANGED <<db, cmd, flags, nss, idx, infos, out, txs, seen, arg, ret>>

\* list leases: up to the loop
LeasesStart ==
    /\ pc = "idle"
    /\ flags' = NoFlags
    /\ \E o \in EnvOutcomes :
        CASE o = "envfail" -> EndEarly("leases", "fatal-env", {})
          [] o = "nsfail"  -> EndEarly("leases", "fatal-nss", {"meta"})
          [] o = "ok"      -> Enter("leases", GetNamespaces(db), <<>>)
    /\ UNCHANGED <<db, arg, ret>>

\* list leases: one namespace
LeasesNs ==
    /\ cmd = "leases" /\ pc = "loop" /\ idx <= Len(nss)
    /\ LET ns      == nss[idx]
           listing == db.ns[ns].leases
       IN  out' = IF listing.err THEN out
                  ELSE IF listing.recs = <<>>
                  THEN Append(out, Row("leases", ns, ""))
                  ELSE out \o [i \in 1..Len(listing.recs) |->
                                  Row("leases", ns, listing.recs[i].id)]
    /\ idx' = idx + 1
    /\ txs' = BeginView(txs)
    /\ UNCHANGED <<db, cmd, pc, flags, nss, infos, res, open, seen, arg, ret>>

\* list leases: after the loop
LeasesReturn ==
    /\ cmd = "leases" /\ pc = "loop" /\ idx > Len(nss)
    /\ Return("ok")
    /\ UNCHANGED <<db, cmd, flags, nss, idx, infos, out, txs, seen, arg, ret>>

\* list snapshots: up to the loop
SnapshotsStart ==
    /\ pc = "idle"
    /\ flags' = NoFlags
    /\ \E o \in EnvOutcomes :
        CASE o = "envfail" -> EndEarly("snapshots", "err-env", {})
          [] o = "nsfail"  -> EndEarly("snapshots", "err-nss", {})
          [] o = "ok" ->
                IF GetNamespaces(db) = <<>>
                THEN EndEarly("snapshots", "err-empty", {})
                ELSE Enter("snapshots", GetNamespaces(db), <<>>)
    /\ UNCHANGED <<db, arg, ret>>

\* ctrmeta.ListSnapshots: the snapshot index entries of a namespace
ListSnapshots(store, ns) ==
    LET recs == store.ns[ns].snapshots.recs
    IN  [i \in 1..Len(recs) |->
            [ns |-> ns, key |-> recs[i].v.key, name |-> recs[i].v.name,
             snapshotter |-> recs[i].v.snapshotter]]

\* list snapshots: one namespace's entries are collected
SnapshotsNs ==
    /\ cmd = "snapshots" /\ pc = "loop" /\ idx <= Len(nss)
    /\ infos' = IF db.ns[nss[idx]].snapshots.err THEN infos
                ELSE infos \o ListSnapshots(db, nss[idx])
    /\ idx' = idx + 1
    /\ txs' = BeginView(txs)
    /\ UNCHANGED <<db, cmd, pc, flags, nss, out, res, open, seen, arg, ret>>

\* ctrmeta.ContainerSnapshotEnvironment: whether the plugin's store opens
SnapshotEnvironmentOpens(store, plugin) ==
    plugin \in Plugins /\ store.pstore[plugin].shape # "missing"

\* list snapshots: the plugin of the first collected entry is resolved
SnapshotsEnv ==
    /\ cmd = "snapshots" /\ pc = "loop" /\ idx > Len(nss)
    /\ IF infos = <<>>
       THEN Return("panic")
       ELSE IF ~SnapshotEnvironmentOpens(db, infos[1].snapshotter)
       THEN Return("err-ssenv")
       ELSE /\ pc' = "view"
            /\ open' = open \cup {"snap"}
            /\ UNCHANGED res
    /\ UNCHANGED <<db, cmd, flags, nss, idx, infos, out, txs, seen, arg, ret>>

\* the rows of the collected entries, read from one plugin store and built
\* on one root
RECURSIVE snapshotRows(_, _, _)
snapshotRows(entries, pstore, ssroot) ==
    IF entries = <<>> THEN <<>>
    ELSE LET info == Head(entries)
             rest == snapshotRows(Tail(entries), pstore, ssroot)
         IN  IF info.key = "" THEN rest
             ELSE IF pstore.ids[info.name] = 0 THEN rest
             ELSE <<[Row("snapshots", info.ns, info.name)
                       EXCEPT !.snapshotter = info.snapshotter,
                              !.fspath = OverlayPath(ssroot, pstore.ids[info.name])]>>
                  \o rest

\* list snapshots: the View of the plugin store
SnapshotsView ==
    /\ cmd = "snapshots" /\ pc = "view"
    /\ LET plugin == infos[1].snapshotter
           pstore == db.pstore[plugin]
       IN  IF pstore.shape \in {"noversion", "nosnapshots"}
           THEN Return("err-bucket") /\ UNCHANGED out
           ELSE /\ out' = <<Header("snapshots")>>
                          \o snapshotRows(infos, pstore, ResolveRoot(plugin))
                /\ Return("ok")
    /\ txs' = [txs EXCEPT !.plugin = @ + 1]
    /\ UNCHANGED <<db, cmd, flags, nss, idx, infos, seen, arg, ret>>

\* the next invocation
Reset ==
    /\ pc = "done"
    /\ pc' = "idle"
    /\ cmd' = "none"
    /\ flags' = NoFlags
    /\ nss' = <<>>
    /\ idx' = 1
    /\ infos' = <<>>
    /\ out' = <<>>
    /\ res' = "none"
    /\ open' = {}
    /\ txs' = NoTx
    /\ seen' = db
    /\ UNCHANGED <<db, arg, ret>>

Next ==
    \/ ListNamespaces
    \/ ContainersStart \/ ContainersNs \/ ContainersReturn
    \/ ContentStart \/ ContentNs \/ ContentDisplay
    \/ ImagesStart \/ ImagesNs \/ ImagesReturn
    \/ LeasesStart \/ LeasesNs \/ LeasesReturn
    \/ SnapshotsStart \/ SnapshotsNs \/ SnapshotsEnv \/ SnapshotsView
    \/ Reset

Spec == Init /\ [][Next]_vars

\* the list commands, one after the other, on a store holding records of
\* every kind
InitFull ==
    /\ db \in FullStores
    /\ cmd = "none"
    /\ pc = "idle"
    /\ arg = NoArg
    /\ ret = FALSE
    /\ CommandIdle

SpecFull == InitFull /\ [][Next]_vars

\* another process commits a write to the metadata store while a command is
\* in its loop: the records of some namespaces are removed, the namespaces
\* stay (one write per invocation)
ExternalWrite ==
    /\ pc = "loop" /\ db = seen
    /\ \E W \in SUBSET {nss[i] : i \in 1..Len(nss)} :
          /\ W # {}
          /\ db' = [db EXCEPT !.ns = [x \in DOMAIN @ |->
                        IF x \in W THEN FullNsData(0, <<>>, <<>>, <<>>)
                        ELSE @[x]]]
    /\ db' # db
    /\ UNCHANGED <<cmd, pc, flags, nss, idx, infos, out, res, open, txs, seen,
                   arg, ret>>

NextLive == Next \/ ExternalWrite

\* the list commands on a store that another process writes to
SpecLive == InitFull /\ [][NextLive]_vars

---------------------------------------------------------------------------
(* The containers listing of the explorer-based commands.                  *)

MaxContainers == 3

UpperCase ==
    <<"A", "B", "C", "D", "E", "F", "G", "H", "I", "J", "K", "L", "M",
     "N", "O", "P", "Q", "R", "S", "T", "U", "V", "W", "X", "Y", "Z">>

LowerCase ==
    <<"a", "b", "c", "d", "e", "f", "g", "h", "i", "j", "k", "l", "m",
     "n", "o", "p", "q", "r", "s", "t", "u", "v", "w", "x", "y", "z">>

\* strings.ToLower, of ASCII strings
ToLower(s) ==
    [i \in 1..Len(s) |->
        IF \E j \in 1..Len(UpperCase) : UpperCase[j] = s[i]
        THEN LowerCase[CHOOSE j \in 1..Len(UpperCase) : UpperCase[j] = s[i]]
        ELSE s[i]]

OutputTable == <<"t", "a", "b", "l", "e">>
OutputJson == <<"j", "s", "o", "n">>
OutputJsonUpper == <<"J", "S", "O", "N">>
Outputs == {OutputTable, OutputJson, OutputJsonUpper}

\* the containers exp.ListContainers returns: each with its support flag and
\* its running flag, ids in order
ExplorerContainers ==
    {[i \in 1..Len(vs) |-> [id |-> RecIds[i], support |-> vs[i].support,
                             running |-> vs[i].running]] :
        vs \in SeqsUpTo([support : BOOLEAN, running : BOOLEAN], MaxContainers)}

\* one invocation: the containers returned and the command line's flags
RenderArgs ==
    [containers : ExplorerContainers, showSupport : BOOLEAN,
     dockerManaged : BOOLEAN, running : BOOLEAN, output : Outputs]

\* the two `continue`s of the loop
skipContainer(container, f) ==
    IF ~f.showSupport /\ container.SupportContainer THEN TRUE
    ELSE IF f.dockerManaged /\ f.running THEN ~container.Running
    ELSE FALSE

\* what the loop writes for a container it does not skip
renderedRow(container, output) ==
    [header |-> FALSE,
     format |-> IF ToLower(output) = OutputJson THEN "json" ELSE "table",
     id     |-> container.id]

InitRender ==
    /\ db = EmptyDb
    /\ cmd = "none"
    /\ pc = "idle"
    /\ arg \in RenderArgs
    /\ ret = FALSE
    /\ CommandIdle

\* up to the loop: the explorer is opened, the containers are listed, the
\* header is written for the table
RenderStart ==
    /\ pc = "idle"
    /\ cmd' = "render"
    /\ \E o \in EnvOutcomes :
        CASE o = "envfail" ->
                pc' = "done" /\ res' = "fatal-env" /\ open' = {}
                /\ UNCHANGED out
          [] o = "nsfail" ->
                pc' = "done" /\ res' = "fatal-list" /\ open' = {"meta"}
                /\ UNCHANGED out
          [] o = "ok" ->
                /\ pc' = "loop"
                /\ open' = {"meta"}
                /\ out' = IF arg.output = OutputTable
                          THEN <<[header |-> TRUE, format |-> "table", id |-> ""]>>
                          ELSE <<>>
                /\ UNCHANGED res
    /\ UNCHANGED <<db, flags, nss, idx, infos, txs, seen, arg, ret>>

\* one container of the loop
RenderContainer ==
    /\ cmd = "render" /\ pc = "loop" /\ idx <= Len(arg.containers)
    /\ LET c == arg.containers[idx]
           container == [SupportContainer |-> c.support, Running |-> c.running,
                         id |-> c.id]
       IN  out' = IF skipContainer(container, arg) THEN out
                  ELSE Append(out, renderedRow(container, arg.output))
    /\ idx' = idx + 1
    /\ UNCHANGED <<db, cmd, pc, flags, nss, infos, res, open, txs, seen, arg, ret>>

\* after the loop
RenderReturn ==
    /\ cmd = "render" /\ pc = "loop" /\ idx > Len(arg.containers)
    /\ Return("ok")
    /\ UNCHANGED <<db, cmd, flags, nss, idx, infos, out, txs, seen, arg, ret>>

NextRender == RenderStart \/ RenderContainer \/ RenderReturn

SpecRender == InitRender /\ [][NextRender]_vars

---------------------------------------------------------------------------
(* Properties of the list commands.                                        *)

\* the rows of out that are not table headers
DataRows == SelectSeq(out, LAMBDA r : ~r.header)

\* the store was opened and its namespaces enumerated without error
Enumerated == pc = "done" /\ res \notin EnvFailures

\* a stored specification that is absent, undecodable, or decodable with
\* neither a process section nor a hostname
Malformed(payload) ==
    \/ ~payload.present
    \/ ~payload.valid
    \/ (payload.hostname = <<>> /\ ~payload.hasProcess)

HasRow(c, ns, id) ==
    \E j \in 1..Len(out) :
        ~out[j].header /\ out[j].cmd = c /\ out[j].ns = ns /\ out[j].id = id

\* C1: in the containers listing every container whose stored specification
\* is absent or malformed is shown with an empty hostname, and the listing
\* is not aborted: every container of every namespace that could be listed
\* is emitted.
C1_MalformedSpecShownEmpty ==
    (cmd = "containers" /\ Enumerated)
        => /\ res = "ok"
           /\ \A i \in 1..Len(nss) :
                LET listing == db.ns[nss[i]].containers
                IN  \A k \in 1..Len(listing.recs) :
                        (flags.skipKnown /\ isKnownContainerImage(listing.recs[k].v.image))
                        \/ \E j \in 1..Len(out) :
                              /\ ~out[j].header
                              /\ out[j].ns = nss[i]
                              /\ out[j].id = listing.recs[k].id
                              /\ (Malformed(listing.recs[k].v.spec)
                                     => out[j].host = <<>>)

\* C5: when the namespace bucket is absent (the enumeration returns no
\* namespace and no error) every listing command ends with an empty result
\* and no error.
C5_AbsentBucketIsEmptyResult ==
    (Enumerated /\ GetNamespaces(db) = <<>>)
        => res = "ok" /\ DataRows = <<>>

\* C6: the snapshots listing ends without a fault and with zero snapshot
\* rows when namespaces exist but no snapshot entry was collected; an entry
\* missing from the plugin store is skipped and the others are listed.
C6_NoEntriesNoFault ==
    /\ (cmd = "snapshots" /\ Enumerated /\ nss # <<>> /\ infos = <<>>)
            => res # "panic" /\ DataRows = <<>>
    /\ (cmd = "snapshots" /\ pc = "done" /\ res = "ok")
            => \A i \in 1..Len(infos) :
                  LET pstore == db.pstore[infos[1].snapshotter]
                  IN  (infos[i].key # "" /\ pstore.ids[infos[i].name] # 0)
                          <=> HasRow("snapshots", infos[i].ns, infos[i].name)

\* C7: a record that fails to decode (a content blob whose info cannot be
\* read, a namespace whose image or container list fails) does not stop the
\* listing: every other record of that namespace and of the namespaces that
\* follow is emitted.
C7_FailedRecordDoesNotStop ==
    /\ (cmd = "content" /\ Enumerated /\ nss # <<>>)
            => \A i \in 1..Len(nss) :
                  LET recs == db.ns[nss[i]].content.recs
                  IN  \A k \in 1..Len(recs) :
                          recs[k].v.readable => HasRow("content", nss[i], recs[k].id)
    /\ (cmd = "images" /\ Enumerated /\ nss # <<>>)
            => \A i \in 1..Len(nss) :
                  LET recs == db.ns[nss[i]].images.recs
                  IN  \A k \in 1..Len(recs) : HasRow("images", nss[i], recs[k].id)
    /\ (cmd = "containers" /\ Enumerated /\ res # "panic" /\ ~flags.skipKnown)
            => \A i \in 1..Len(nss) :
                  LET recs == db.ns[nss[i]].containers.recs
                  IN  \A k \in 1..Len(recs) : HasRow("containers", nss[i], recs[k].id)

\* C8: when the collected entries name more than one plugin, the path of
\* every emitted row is built on the root of the plugin named in that row.
C8_PathOnOwnPluginRoot ==
    \A j \in 1..Len(out) :
        (out[j].cmd = "snapshots" /\ ~out[j].header)
            => HasPrefix(out[j].fspath, ResolveRoot(out[j].snapshotter) \o <<"/">>)

\* C9: a namespace without records of the listed kind (no container, no
\* content bucket) contributes no row, placeholder or other, and no error.
C9_EmptyNamespaceNoRow ==
    /\ \A j \in 1..Len(out) :
          /\ (out[j].cmd = "containers" /\ ~out[j].header)
                => db.ns[out[j].ns].containers.recs # <<>>
          /\ (out[j].cmd = "content" /\ ~out[j].header)
                => ~db.ns[out[j].ns].content.absent
    /\ (cmd \in {"containers", "content"} /\ Enumerated /\ nss # <<>>
          /\ \A i \in 1..Len(nss) :
                /\ db.ns[nss[i]].containers = NoRecords.containers
                /\ db.ns[nss[i]].content = NoRecords.content)
            => res = "ok"

\* C11: no step of any list command changes the metadata store or a
\* plugin's store, and none begins a write transaction: the stores after a
\* sequence of list commands are the stores before it.
C11_StoresUnchanged == [][db' = db /\ txs'.update = 0]_vars

\* a content listing over two namespaces came to its end, having read each
\* namespace's blobs in a transaction of the metadata store
C11_Witness ==
    /\ pc = "done" /\ cmd = "content" /\ res = "ok"
    /\ Len(nss) = 2 /\ txs.view = 3 /\ txs.update = 0
    /\ \A i \in 1..2 : db.ns[nss[i]].content.recs # <<>>
    /\ Len(out) > 2

\* C12: when a list command has ended, on whichever path, no store handle
\* it opened is still held.
C12_HandlesReleased == pc = "done" => open = {}

\* the blob infos that a scan of every namespace of one state of the store
\* collects
RECURSIVE contentInfosAt(_, _)
contentInfosAt(store, names) ==
    IF names = <<>> THEN <<>>
    ELSE LET ns     == Head(names)
             bucket == store.ns[ns].content
         IN  (IF bucket.absent THEN <<[ns |-> ns, digest |-> ""]>>
              ELSE readableInfos(ns, bucket.recs))
             \o contentInfosAt(store, Tail(names))

\* the command has begun exactly one read-only transaction on the metadata
\* store
OneTransaction ==
    pc = "done" /\ res \notin {"fatal-env", "err-env"} => txs.view = 1

\* the blobs of a completed content listing are those of one state of the
\* store: the one before or the one after the concurrent write
OneState ==
    pc = "done" /\ cmd = "content" /\ res = "ok" =>
        \E store \in {seen, db} :
            infos = contentInfosAt(store, GetNamespaces(store))

\* C13: a list command that opened the metadata store has begun exactly one
\* read-only transaction on it when it ends, whatever the number of
\* namespaces, and the records a completed listing shows are those of one
\* state of the store even when another process writes between two reads.
C13_OneTransactionOneState == OneTransaction /\ OneState

\* the containers of one listing that the filter of the old listing keeps:
\* all but those of a known image when skip is set
RECURSIVE keptOf(_, _, _)
keptOf(ns, recs, skip) ==
    IF recs = <<>> THEN <<>>
    ELSE (IF skip /\ isKnownContainerImage(Head(recs).v.image) THEN <<>>
          ELSE <<[ns |-> ns, id |-> Head(recs).id]>>)
         \o keptOf(ns, Tail(recs), skip)

\* those of every namespace whose containers could be listed, in order
RECURSIVE keptContainers(_, _, _)
keptContainers(store, names, skip) ==
    IF names = <<>> THEN <<>>
    ELSE LET listing == store.ns[Head(names)].containers
         IN  (IF listing.err THEN <<>>
              ELSE keptOf(Head(names), listing.recs, skip))
             \o keptContainers(store, Tail(names), skip)

\* the containers of the rows written, in order
EmittedContainers ==
    LET rows == SelectSeq(out, LAMBDA r : ~r.header /\ r.id # "")
    IN  [i \in 1..Len(rows) |-> [ns |-> rows[i].ns, id |-> rows[i].id]]

\* C14: when the containers listing has ended, the containers written are
\* those returned for the namespaces without the filtered ones (here: the
\* containers of a known support image when skip-known-containers is set),
\* each once and in the order returned.
C14_LeftOutIffFiltered ==
    pc = "done" /\ cmd = "containers" /\ res \notin EnvFailures =>
        EmittedContainers = keptContainers(db, nss, flags.skipKnown)

\* the same, of the listings that came to their end
KeptWhenCompleted ==
    pc = "done" /\ cmd = "containers" /\ res = "ok" =>
        EmittedContainers = keptContainers(db, nss, flags.skipKnown)

\* the containers the explorer-based listing has written, in order
RenderedIds ==
    LET rows == SelectSeq(out, LAMBDA r : ~r.header)
    IN  [i \in 1..Len(rows) |-> rows[i].id]

\* the containers it was given that are neither support containers under
\* the support filter nor stopped ones under docker-managed and running
ClaimedIds ==
    LET kept == SelectSeq(arg.containers, LAMBDA c :
                    ~(\/ (~arg.showSupport /\ c.support)
                      \/ (arg.dockerManaged /\ arg.running /\ ~c.running)))
    IN  [i \in 1..Len(kept) |-> kept[i].id]

\* the explorer-based listing, when it has ended, has written exactly these,
\* each once and in order, whatever the output format
RenderedAsClaimed ==
    pc = "done" /\ cmd = "render" /\ res = "ok" => RenderedIds = ClaimedIds

\* a listing of three containers that left out a support container and a
\* stopped one and wrote the third as JSON
RenderedWitness ==
    /\ pc = "done" /\ cmd = "render" /\ res = "ok"
    /\ Len(arg.containers) = 3 /\ Len(RenderedIds) = 1
    /\ arg.output = OutputJsonUpper
    /\ arg.dockerManaged /\ arg.running /\ ~arg.showSupport
    /\ \E i, j \in 1..3 : /\ arg.containers[i].support
                           /\ ~arg.containers[j].support
                           /\ ~arg.containers[j].running

===========================================================================
